---- MODULE Spec2Model ----
(***************************************************************************)
(* CNPJ validation and normalisation of                                    *)
(* "Projects RPA with excel/Project_Capture_Address_With_CNPJ/             *)
(* search_cnpj.py".                                                        *)
(*                                                                         *)
(* A Python str is a sequence of characters.  A character is a one-letter  *)
(* TLA+ string; the one character outside ASCII that the model carries,    *)
(* ARABIC-INDIC DIGIT ZERO (U+0660, category Nd, int() value 0), is the    *)
(* string "U0660".                                                         *)
(***************************************************************************)
EXTENDS Integers, Sequences, FiniteSets, TLC

VARIABLES
    cnpj,                 \* the raw string handed to the functions
    verdict,              \* <<>> or <<frame>>: validator_cnpj(cnpj) at its return
    normalized,           \* <<>> or <<s>>: cnpj_format(cnpj)
    verdict_normalized,   \* <<>> or <<frame>>: validator_cnpj(cnpj_format(cnpj))
    renormalized,         \* <<>> or <<s>>: cnpj_format(cnpj_format(cnpj))
    http,                 \* <<>> or <<call>>: the last get_cnpj_with_httpclient call
    file,                 \* data_cnpj.xlsx: <<>> (missing) or <<workbook>>
    pc,                   \* where the script's __main__ block stands
    cnpj_pendente,        \* the list read_cnpj_in_sheet returned
    loop_i,               \* the loop index i of __main__ (from 1)
    result,               \* <<>> (None) or <<payload>>: what the last call returned
    log,                  \* the current run in order: "request" for a call that
                          \* made a request, "call" for one that made none,
                          \* "wait" for a time.sleep(20)
    runs,                 \* how many times the script was started
    address_file,         \* Address.xlsx: <<>> (missing) or <<worksheet>>
    last_addresses,       \* <<>> or <<list>>: the list of the last save_address_in_excel
    repeated              \* <<>> or <<worksheet>>: the sheet before a call that
                          \* repeats the list of the call before it

pureVars == <<verdict, normalized, verdict_normalized, renormalized>>

scriptVars == <<file, pc, cnpj_pendente, loop_i, result, log, runs>>

addressVars == <<address_file, last_addresses, repeated>>

vars == <<cnpj, pureVars, http, scriptVars, addressVars>>

-----------------------------------------------------------------------------
(* Characters                                                              *)

AsciiDigits == {"0", "1", "2", "3", "4", "5", "6", "7", "8", "9"}

UnicodeDigits == {"U0660"}

\* \d in a str pattern (no re.ASCII flag): any Unicode decimal digit.
IsDigit(c) == c \in AsciiDigits \cup UnicodeDigits

\* int(d) for a one-character string d; -1 stands for ValueError.
int(d) ==
    CASE d = "0" -> 0 [] d = "1" -> 1 [] d = "2" -> 2 [] d = "3" -> 3
      [] d = "4" -> 4 [] d = "5" -> 5 [] d = "6" -> 6 [] d = "7" -> 7
      [] d = "8" -> 8 [] d = "9" -> 9 [] d = "U0660" -> 0
      [] OTHER -> -1

DigitChar == <<"0", "1", "2", "3", "4", "5", "6", "7", "8", "9">>

\* str(n) for a natural n: its decimal digits, most significant first.
RECURSIVE str(_)
str(n) ==
    IF n < 10 THEN <<DigitChar[n + 1]>>
    ELSE str(n \div 10) \o <<DigitChar[(n % 10) + 1]>>

-----------------------------------------------------------------------------
(* Regular expressions of the module                                       *)

\* A pattern is a sequence of tokens: "\\d" is the class \d, any other
\* token is the literal character.
MaskedPattern ==
    <<"\\d", "\\d", ".", "\\d", "\\d", "\\d", ".", "\\d", "\\d", "\\d", "/",
      "\\d", "\\d", "\\d", "\\d", "-", "\\d", "\\d">>

PlainPattern == [i \in 1..14 |-> "\\d"]

MatchToken(tok, c) == IF tok = "\\d" THEN IsDigit(c) ELSE c = tok

\* One alternative of the pattern against the whole string.  Every token
\* consumes exactly one character, and fullmatch needs the match to end at
\* the end of the string ($ before a trailing newline does not get there).
MatchWhole(pat, s) ==
    /\ Len(s) = Len(pat)
    /\ \A i \in 1..Len(pat) : MatchToken(pat[i], s[i])

\* A mutant: no structural check at all.
re_fullmatch_always(s) == TRUE

\* A mutant: the unmasked alternative alone.
re_fullmatch_plain_only(s) == MatchWhole(PlainPattern, s)

\* re.fullmatch(r'^(\d{2}\.\d{3}\.\d{3}/\d{4}-\d{2}|\d{14})$', cnpj)
re_fullmatch(s) == MatchWhole(MaskedPattern, s) \/ MatchWhole(PlainPattern, s)

\* re.sub(r'\D', '', s)
re_sub_nondigits(s) == SelectSeq(s, IsDigit)

-----------------------------------------------------------------------------
(* cnpj_format                                                             *)

\* A mutant: re.sub(..., count=1), only the first non-digit is removed.
RECURSIVE cnpj_format_first_only(_)
cnpj_format_first_only(s) ==
    IF s = <<>> THEN <<>>
    ELSE IF ~IsDigit(Head(s)) THEN Tail(s)
    ELSE <<Head(s)>> \o cnpj_format_first_only(Tail(s))

cnpj_format(s) == re_sub_nondigits(s)

-----------------------------------------------------------------------------
(* validator_cnpj                                                          *)

weights == <<6, 5, 4, 3, 2, 9, 8, 7, 6, 5, 4, 3, 2>>

\* Python's list index: k in -len..len-1, negative k counted from the end.
InRange(list, k) == k >= -Len(list) /\ k < Len(list)
PyIndex(list, k) == IF k >= 0 THEN list[k + 1] ELSE list[Len(list) + k + 1]

\* s[:n] and s[-n:] of a str.
SliceTo(s, n) == SubSeq(s, 1, IF n < Len(s) THEN n ELSE Len(s))
SliceLast(s, n) == SubSeq(s, IF Len(s) > n THEN Len(s) - n + 1 ELSE 1, Len(s))

\* c * n of a one-character str.
Repeat(c, n) == [i \in 1..n |-> c]

\* A mutant: the table read from its start, not right-aligned.
WeightIndexLeft(i, cnpj_partial) == i

\* The index calc_digit reads weights at for the i-th character (i from 0).
WeightIndex(i, cnpj_partial) == i + Len(weights) - Len(cnpj_partial)

RECURSIVE SumFrom(_, _)
SumFrom(cnpj_partial, i) ==
    IF i >= Len(cnpj_partial) THEN 0
    ELSE int(cnpj_partial[i + 1])
           * PyIndex(weights, WeightIndex(i, cnpj_partial))
         + SumFrom(cnpj_partial, i + 1)

\* calc_digit raises: int() of a non-digit, or weights read out of range.
calc_raises(cnpj_partial) ==
    \E i \in 0..(Len(cnpj_partial) - 1) :
        \/ int(cnpj_partial[i + 1]) < 0
        \/ ~InRange(weights, WeightIndex(i, cnpj_partial))

\* A mutant: '0' only when the remainder is 0.
check_char_rest_lt_1(rest) == IF rest < 1 THEN <<"0">> ELSE str(11 - rest)

\* A mutant: the remainder itself.
check_char_plain_rest(rest) == IF rest < 2 THEN <<"0">> ELSE str(rest)

\* '0' if rest < 2 else str(11 - rest)
check_char(rest) == IF rest < 2 THEN <<"0">> ELSE str(11 - rest)

calc_digit(cnpj_partial) == check_char(SumFrom(cnpj_partial, 0) % 11)

\* The function's locals when it returns; a local never assigned is <<>>,
\* an assigned one is <<value>>.  ret is "True", "False" or the exception
\* raised; line is the line of the return (or of the raise).
Frame(ret, line, nums, d1, d2) ==
    [ret |-> ret, line |-> line, cnpj_numbers |-> nums,
     first_digit |-> d1, second_digit |-> d2]

\* A mutant: the degenerate check left out.
all_same_never(cnpj_numbers) == FALSE

\* cnpj_numbers == cnpj_numbers[0] * 14
all_same(cnpj_numbers) == cnpj_numbers = Repeat(cnpj_numbers[1], 14)

validator_frame(s) ==
    IF ~re_fullmatch(s) THEN Frame("False", 44, <<>>, <<>>, <<>>)
    ELSE
    LET cnpj_numbers == re_sub_nondigits(s) IN
    IF cnpj_numbers = <<>>
    THEN Frame("IndexError", 48, <<cnpj_numbers>>, <<>>, <<>>)
    ELSE IF all_same(cnpj_numbers)
    THEN Frame("False", 49, <<cnpj_numbers>>, <<>>, <<>>)
    ELSE IF calc_raises(SliceTo(cnpj_numbers, 12))
    THEN Frame("Error", 63, <<cnpj_numbers>>, <<>>, <<>>)
    ELSE
    LET first_digit == calc_digit(SliceTo(cnpj_numbers, 12)) IN
    IF calc_raises(SliceTo(cnpj_numbers, 12) \o first_digit)
    THEN Frame("Error", 64, <<cnpj_numbers>>, <<first_digit>>, <<>>)
    ELSE
    LET second_digit == calc_digit(SliceTo(cnpj_numbers, 12) \o first_digit) IN
    Frame(IF SliceLast(cnpj_numbers, 2) = first_digit \o second_digit
          THEN "True" ELSE "False",
          66, <<cnpj_numbers>>, <<first_digit>>, <<second_digit>>)

validator_cnpj(s) == validator_frame(s).ret

-----------------------------------------------------------------------------
(* Inputs                                                                  *)

\* Strings of at most MaxLen characters over ShortAlphabet.
MaxLen == 3

\* How many of the positions of VaryOrder take every digit.
NumVary == 1

ShortAlphabet == {"1", "2", "3", "a", "b", "c", ".", "U0660"}

RECURSIVE StringsUpTo(_)
StringsUpTo(n) ==
    IF n = 0 THEN {<<>>}
    ELSE LET shorter == StringsUpTo(n - 1) IN
         shorter \cup {Append(s, c) : s \in {x \in shorter : Len(x) = n - 1},
                                      c \in ShortAlphabet}

\* The twelve base digits of the CNPJ 11.222.333/0001-81.
BaseDigits == <<"1", "1", "2", "2", "2", "3", "3", "3", "0", "0", "0", "1">>

VaryOrder == <<12, 1, 5, 9>>

VaryPositions == {VaryOrder[k] : k \in 1..(IF NumVary < Len(VaryOrder) THEN NumVary ELSE Len(VaryOrder))}

\* Fourteen ASCII digits: the base with one position varied, and any two
\* check digits; and the fourteen-fold repetitions of one digit.
DigitStrings ==
    {[BaseDigits EXCEPT ![p] = b] \o <<s1, s2>> :
        p \in VaryPositions, b \in AsciiDigits, s1 \in AsciiDigits, s2 \in AsciiDigits}
    \cup {Repeat(d, 14) : d \in AsciiDigits}

\* DD.DDD.DDD/DDDD-DD of fourteen characters.
Masked(d) ==
    SubSeq(d, 1, 2) \o <<".">> \o SubSeq(d, 3, 5) \o <<".">> \o SubSeq(d, 6, 8)
    \o <<"/">> \o SubSeq(d, 9, 12) \o <<"-">> \o SubSeq(d, 13, 14)

\* The mask with its separators exchanged: DD-DDD-DDD.DDDD/DD.
Mismasked(d) ==
    SubSeq(d, 1, 2) \o <<"-">> \o SubSeq(d, 3, 5) \o <<"-">> \o SubSeq(d, 6, 8)
    \o <<".">> \o SubSeq(d, 9, 12) \o <<"/">> \o SubSeq(d, 13, 14)

\* The ninth character, when it is "0", written as U+0660.
WithUnicodeZero(d) == IF d[9] = "0" THEN [d EXCEPT ![9] = "U0660"] ELSE d

JunkChars == {"a", "9"}

Forms(d) ==
    {d, Masked(d), Mismasked(d), Tail(d),
     WithUnicodeZero(d), Masked(WithUnicodeZero(d))}
    \cup {<<j>> \o d : j \in JunkChars} \cup {d \o <<j>> : j \in JunkChars}
    \cup {<<j>> \o Masked(d) : j \in JunkChars}
    \cup {Masked(d) \o <<j>> : j \in JunkChars}

Inputs ==
    StringsUpTo(MaxLen)
    \cup UNION {Forms(d) : d \in DigitStrings}
    \cup {Repeat("U0660", 14), Masked(Repeat("U0660", 14))}

-----------------------------------------------------------------------------
(* The functions applied to an input                                       *)

\* Nothing of the pure functions was called.
NoPureCall ==
    /\ verdict = <<>>
    /\ normalized = <<>>
    /\ verdict_normalized = <<>>
    /\ renormalized = <<>>

\* The CNPJ script was not started and no request made.
NoScript ==
    /\ http = <<>>
    /\ file = <<>>
    /\ pc = "idle"
    /\ cnpj_pendente = <<>>
    /\ loop_i = 0
    /\ result = <<>>
    /\ log = <<>>
    /\ runs = 0

\* The CEP script saved nothing.
NoAddressCall ==
    /\ address_file = <<>>
    /\ last_addresses = <<>>
    /\ repeated = <<>>

Init ==
    /\ cnpj \in Inputs
    /\ NoPureCall
    /\ NoScript
    /\ NoAddressCall

\* validator_cnpj(cnpj)
Validate ==
    /\ verdict = <<>>
    /\ verdict' = <<validator_frame(cnpj)>>
    /\ UNCHANGED <<cnpj, normalized, verdict_normalized, renormalized>>
    /\ UNCHANGED <<http, scriptVars, addressVars>>

\* cnpj_normalizado = cnpj_format(cnpj)
Normalize ==
    /\ normalized = <<>>
    /\ normalized' = <<cnpj_format(cnpj)>>
    /\ UNCHANGED <<cnpj, verdict, verdict_normalized, renormalized>>
    /\ UNCHANGED <<http, scriptVars, addressVars>>

\* validator_cnpj(cnpj_normalizado): read_cnpj_in_sheet hands the normalized
\* string to get_cnpj_with_httpclient, which validates it.
ValidateNormalized ==
    /\ normalized # <<>>
    /\ verdict_normalized = <<>>
    /\ verdict_normalized' = <<validator_frame(normalized[1])>>
    /\ UNCHANGED <<cnpj, verdict, normalized, renormalized>>
    /\ UNCHANGED <<http, scriptVars, addressVars>>

\* cnpj_format(cnpj_normalizado): get_cnpj_with_httpclient normalizes again.
Renormalize ==
    /\ normalized # <<>>
    /\ renormalized = <<>>
    /\ renormalized' = <<cnpj_format(normalized[1])>>
    /\ UNCHANGED <<cnpj, verdict, normalized, verdict_normalized>>
    /\ UNCHANGED <<http, scriptVars, addressVars>>

Next == Validate \/ Normalize \/ ValidateNormalized \/ Renormalize

Spec == Init /\ [][Next]_vars

TypeOK ==
    /\ cnpj \in Inputs
    /\ Len(verdict) <= 1 /\ Len(normalized) <= 1
    /\ Len(verdict_normalized) <= 1 /\ Len(renormalized) <= 1

-----------------------------------------------------------------------------
(* get_cnpj_with_httpclient                                                *)

\* A dict is a function from its keys; {} is the empty function.
EmptyDict == <<>>
Get(data, key, default) == IF key \in DOMAIN data THEN data[key] ELSE default
Truthy(data) == DOMAIN data # {}

\* What the network and the server do with one request: status 0 stands
\* for an exception raised by request() or getresponse(); body is <<>> for
\* bytes json.loads cannot decode and <<value>> for the decoded value.
Response(status, body) == [status |-> status, body |-> body]

\* The payloads of a 200: the company of the requested CNPJ, its "cnpj"
\* masked or digits only, and the empty object.
Payloads(path) ==
    {EmptyDict}
    \cup (IF Len(path) = 14
          THEN {[k \in {"cnpj"} |-> Masked(path)], [k \in {"cnpj"} |-> path]}
          ELSE {})

Statuses == {200, 429, 504, 500}

Responses(path) ==
    {Response(0, <<>>)}
    \cup {Response(s, <<>>) : s \in Statuses}
    \cup {Response(s, <<d>>) : s \in Statuses, d \in Payloads(path)}

\* The request line is encoded as ASCII: request() raises UnicodeEncodeError
\* for any other character, before anything is sent.
Encodable(path) == \A k \in 1..Len(path) : path[k] # "U0660"

\* A call at its return: ret is <<>> for None and <<dict>> otherwise,
\* connection is "none" (never created), "open" or "closed", requests the
\* paths (after /v1/cnpj/) connection.request was called with, response the
\* response consumed, line the line of the return.
Call(ret, raised, line, connection, requests, response) ==
    [ret |-> ret, raised |-> raised, line |-> line, connection |-> connection,
     requests |-> requests, response |-> response]

\* A mutant: the connection is closed on the success path only.
finally_close_on_success(call) ==
    IF call.line = 161 /\ call.ret # <<>>
    THEN [call EXCEPT !.connection = "closed"]
    ELSE call

\* finally: connection.close()
finally_close(call) == [call EXCEPT !.connection = "closed"]

\* A mutant: 429 is not told from 200.
try_body_no_429(path, response) ==
    IF ~Encodable(path) \/ response.status = 0
    THEN Call(<<>>, FALSE, 172, "open", <<path>>, <<>>)
    ELSE IF response.status = 504
    THEN Call(<<>>, FALSE, 157, "open", <<path>>, <<response>>)
    ELSE IF response.status \in {200, 429}
    THEN IF response.body = <<>>
         THEN Call(<<>>, FALSE, 168, "open", <<path>>, <<response>>)
         ELSE Call(response.body, FALSE, 161, "open", <<path>>, <<response>>)
    ELSE Call(<<>>, FALSE, 164, "open", <<path>>, <<response>>)

\* The try block and its except clauses.
try_body(path, response) ==
    IF ~Encodable(path) \/ response.status = 0
    THEN Call(<<>>, FALSE, 172, "open", <<path>>, <<>>)
    ELSE IF response.status = 429
    THEN Call(<<>>, FALSE, 153, "open", <<path>>, <<response>>)
    ELSE IF response.status = 504
    THEN Call(<<>>, FALSE, 157, "open", <<path>>, <<response>>)
    ELSE IF response.status = 200
    THEN IF response.body = <<>>
         THEN Call(<<>>, FALSE, 168, "open", <<path>>, <<response>>)
         ELSE Call(response.body, FALSE, 161, "open", <<path>>, <<response>>)
    ELSE Call(<<>>, FALSE, 164, "open", <<path>>, <<response>>)

\* A mutant: the argument is not validated.
accepted_always(s) == "True"

\* if not validator_cnpj(cnpj)
accepted(s) == validator_cnpj(s)

get_cnpj_with_httpclient(s, response) ==
    IF accepted(s) \notin {"True", "False"}
    THEN Call(<<>>, TRUE, 140, "none", <<>>, <<>>)
    ELSE IF accepted(s) = "False"
    THEN Call(<<>>, FALSE, 142, "none", <<>>, <<>>)
    ELSE finally_close(try_body(cnpj_format(s), response))

\* get_cnpj_with_httpclient(cnpj), whatever the server answers.
Consult ==
    /\ http = <<>>
    /\ \E response \in Responses(cnpj_format(cnpj)) :
          http' = <<get_cnpj_with_httpclient(cnpj, response)>>
    /\ UNCHANGED <<cnpj, pureVars, scriptVars, addressVars>>

NextGet == Consult

SpecGet == Init /\ [][NextGet]_vars

-----------------------------------------------------------------------------
(* The workbook data_cnpj.xlsx, read_cnpj_in_sheet and save_data_in_sheet   *)

\* An empty cell, NaN in a DataFrame.
NaN == <<"NaN">>

NotAvailable == <<"N", "/", "A">>

\* A workbook: the cells of column CNPJ of sheet 'CNPJS', and sheet 'Dados',
\* <<>> when the workbook has no such sheet and <<rows>> otherwise, a row
\* being the cell of its column CNPJ.
Workbook(cnpjs, dados) == [CNPJS |-> cnpjs, Dados |-> dados]

\* set(df_data['CNPJ'].astype(str).tolist()), or set() when reading fails.
cnpjs_consultados(wb) ==
    IF wb.Dados = <<>> THEN {}
    ELSE {wb.Dados[1][k] : k \in 1..Len(wb.Dados[1])}

\* df_cnpj_input['CNPJ'].dropna()
dropna(cells) == SelectSeq(cells, LAMBDA c : c # NaN)

\* The loop of read_cnpj_in_sheet from the k-th cell on.
RECURSIVE PendingFrom(_, _, _)
PendingFrom(cells, consultados, k) ==
    IF k > Len(cells) THEN <<>>
    ELSE LET cnpj_normalizado == cnpj_format(cells[k]) IN
         IF cnpj_normalizado \in consultados
         THEN PendingFrom(cells, consultados, k + 1)
         ELSE <<cnpj_normalizado>> \o PendingFrom(cells, consultados, k + 1)

read_cnpj_in_sheet(f) ==
    IF f = <<>> THEN <<>>
    ELSE PendingFrom(dropna(f[1].CNPJS), cnpjs_consultados(f[1]), 1)

\* The row save_data_in_sheet adds: its column CNPJ.
nova_linha(data) == Get(data, "cnpj", NotAvailable)

\* The file after save_data_in_sheet(data): 'Dados' with the new row after
\* the rows read, 'CNPJS' as read.
save_data_in_sheet(data, f) ==
    LET df_data == IF f # <<>> /\ f[1].Dados # <<>> THEN f[1].Dados[1] ELSE <<>>
        df_cnpjs == IF f # <<>> THEN f[1].CNPJS ELSE <<>>
    IN  <<Workbook(df_cnpjs, <<Append(df_data, nova_linha(data))>>)>>

-----------------------------------------------------------------------------
(* The script: __main__ of search_cnpj.py, run MaxRuns times on one file    *)

\* How many cells column CNPJ of the input sheet has at most.
MaxCells == 2

\* How many times the script is run.
MaxRuns == 2

OtherCnpj == <<"1", "1", "2", "2", "2", "3", "3", "3", "0", "0", "0", "0", "0", "9">>

SheetCells ==
    {<<"1", "1", "2", "2", "2", "3", "3", "3", "0", "0", "0", "1", "8", "1">>,
     Masked(<<"1", "1", "2", "2", "2", "3", "3", "3", "0", "0", "0", "1", "8", "1">>),
     OtherCnpj,
     <<"1", "1", "2", "2", "2", "3", "3", "3", "0", "0", "0", "1", "0", "0">>,
     NaN}

RECURSIVE ColumnsUpTo(_)
ColumnsUpTo(n) ==
    IF n = 0 THEN {<<>>}
    ELSE LET shorter == ColumnsUpTo(n - 1) IN
         shorter \cup {Append(s, c) : s \in {x \in shorter : Len(x) = n - 1},
                                      c \in SheetCells}

InitScript ==
    /\ cnpj = <<>>
    /\ NoPureCall
    /\ NoAddressCall
    /\ http = <<>>
    /\ file \in {<<>>} \cup {<<Workbook(c, <<>>)>> : c \in ColumnsUpTo(MaxCells)}
    /\ pc = "start"
    /\ cnpj_pendente = <<>>
    /\ loop_i = 0
    /\ result = <<>>
    /\ log = <<>>
    /\ runs = 1

\* cnpj_pendente = read_cnpj_in_sheet(); if not cnpj_pendente: ... else: for
ReadSheet ==
    /\ pc = "start"
    /\ cnpj_pendente' = read_cnpj_in_sheet(file)
    /\ IF cnpj_pendente' = <<>>
       THEN pc' = "end" /\ loop_i' = loop_i
       ELSE pc' = "loop" /\ loop_i' = 1
    /\ UNCHANGED <<cnpj, pureVars, http, file, result, log, runs, addressVars>>

\* result = get_cnpj_with_httpclient(cnpj)
ConsultPending ==
    /\ pc = "loop"
    /\ cnpj' = cnpj_pendente[loop_i]
    /\ \E response \in Responses(cnpj_format(cnpj')) :
          LET call == get_cnpj_with_httpclient(cnpj', response) IN
          /\ result' = call.ret
          /\ log' = Append(log, IF call.requests = <<>> THEN "call" ELSE "request")
    /\ pc' = "got"
    /\ UNCHANGED <<pureVars, http, file, cnpj_pendente, loop_i, runs, addressVars>>

\* if result: save_data_in_sheet(result), and then the wait is next when
\* this was not the last CNPJ.
SaveResult ==
    /\ pc = "got"
    /\ result # <<>> /\ Truthy(result[1])
    /\ file' = save_data_in_sheet(result[1], file)
    /\ pc' = IF loop_i < Len(cnpj_pendente) THEN "sleep" ELSE "end"
    /\ UNCHANGED <<cnpj, pureVars, http, cnpj_pendente, loop_i, result, log, runs,
                   addressVars>>

\* if result: is false; the loop goes on at once.
SkipResult ==
    /\ pc = "got"
    /\ ~(result # <<>> /\ Truthy(result[1]))
    /\ IF loop_i < Len(cnpj_pendente)
       THEN pc' = "loop" /\ loop_i' = loop_i + 1
       ELSE pc' = "end" /\ loop_i' = loop_i
    /\ UNCHANGED <<cnpj, pureVars, http, file, cnpj_pendente, result, log, runs,
                   addressVars>>

\* time.sleep(20), and the next iteration.
Sleep ==
    /\ pc = "sleep"
    /\ log' = Append(log, "wait")
    /\ pc' = "loop"
    /\ loop_i' = loop_i + 1
    /\ UNCHANGED <<cnpj, pureVars, http, file, cnpj_pendente, result, runs,
                   addressVars>>

\* The script is started again on the file it left.
RunAgain ==
    /\ pc = "end"
    /\ runs < MaxRuns
    /\ runs' = runs + 1
    /\ pc' = "start"
    /\ cnpj' = <<>>
    /\ cnpj_pendente' = <<>>
    /\ loop_i' = 0
    /\ result' = <<>>
    /\ log' = <<>>
    /\ UNCHANGED <<pureVars, http, file, addressVars>>

NextScript ==
    ReadSheet \/ ConsultPending \/ SaveResult \/ SkipResult \/ Sleep \/ RunAgain

SpecScript == InitScript /\ [][NextScript]_vars

-----------------------------------------------------------------------------
(* Address.xlsx and save_address_in_excel of Using_OPENPYXL/search_cep.py  *)

\* A worksheet, by its column 1: cells[r] is the value of the cell of row
\* r, "None" for a cell without value; current_row is openpyxl's
\* _current_row, the row the next append goes below.  The file holds the
\* cells alone.
Worksheet(cells, current_row) == [cells |-> cells, current_row |-> current_row]

\* ws.max_row: 1 for a sheet without cells.
max_row(ws) == IF ws.cells = <<>> THEN 1 ELSE Len(ws.cells)

\* Workbook().active
new_sheet == Worksheet(<<>>, 0)

\* load_workbook(file).active: _current_row is max_row when there are cells.
load_workbook(cells) ==
    Worksheet(cells, IF cells = <<>> THEN 0 ELSE Len(cells))

\* ws.cell(row=r, column=1): a cell that does not exist is created, and
\* _current_row raised to its row.
touch_cell(ws, r) ==
    Worksheet(IF r <= Len(ws.cells) THEN ws.cells
              ELSE ws.cells \o [k \in 1..(r - Len(ws.cells)) |-> "None"],
              IF r > ws.current_row THEN r ELSE ws.current_row)

\* ws.append([v, ...]): the row below _current_row.
append(ws, v) ==
    LET row_idx == ws.current_row + 1
        grown == IF row_idx <= Len(ws.cells) THEN ws.cells
                 ELSE ws.cells \o [k \in 1..(row_idx - Len(ws.cells)) |-> "None"]
    IN  Worksheet([grown EXCEPT ![row_idx] = v], row_idx)

\* wb.save(file): cells without value are not written.
RECURSIVE written(_)
written(cells) ==
    IF cells = <<>> THEN <<>>
    ELSE IF cells[Len(cells)] = "None" THEN written(SubSeq(cells, 1, Len(cells) - 1))
    ELSE cells

\* ws.max_row == 1 and ws.cell(row=1, column=1).value is None
needs_header(ws) == max_row(ws) = 1 /\ touch_cell(ws, 1).cells[1] = "None"

\* The sheet after the header test: the test reads cell A1 when max_row
\* is 1, and the header is appended when the test holds.
with_header(ws) ==
    IF max_row(ws) # 1 THEN ws
    ELSE IF needs_header(ws) THEN append(touch_cell(ws, 1), "CEP")
    ELSE touch_cell(ws, 1)

\* {ws.cell(row=i, column=1).value for i in range(2, ws.max_row + 1)}
saved_ceps_of(ws) == {ws.cells[r] : r \in 2..max_row(ws)}

\* The loop over addresses from the k-th on.
RECURSIVE save_from(_, _, _, _)
save_from(addresses, k, ws, saved_ceps) ==
    IF k > Len(addresses) THEN ws
    ELSE LET cep == Get(addresses[k], "cep", "None") IN
         IF cep \in saved_ceps
         THEN save_from(addresses, k + 1, ws, saved_ceps)
         ELSE save_from(addresses, k + 1,
                        append(ws, Get(addresses[k], "cep", "N/A")),
                        saved_ceps \cup {cep})

\* The cells of the file after save_address_in_excel(addresses, file).
save_address_in_excel(addresses, f) ==
    LET ws == with_header(IF f # <<>> THEN load_workbook(f[1]) ELSE new_sheet)
    IN  written(save_from(addresses, 1, ws, saved_ceps_of(ws)).cells)

\* How many addresses a list has at most.
MaxAddresses == 2

\* Rows of the file beyond which no further call is made.
MaxRows == 5

Addresses ==
    {[k \in {"cep"} |-> "01001-000"],
     [k \in {"cep"} |-> "77001-432"],
     [k \in {"logradouro"} |-> "Rua A"]}

RECURSIVE AddressListsUpTo(_)
AddressListsUpTo(n) ==
    IF n = 0 THEN {<<>>}
    ELSE LET shorter == AddressListsUpTo(n - 1) IN
         shorter \cup {Append(s, a) : s \in {x \in shorter : Len(x) = n - 1},
                                      a \in Addresses}

\* The file is missing, or holds no cell, or a header, or a header and rows
\* without duplicates.
InitAddress ==
    /\ cnpj = <<>>
    /\ NoPureCall
    /\ NoScript
    /\ address_file \in {<<>>, <<<<>>>>, <<<<"CEP">>>>, <<<<"CEP", "01001-000">>>>}
    /\ last_addresses = <<>>
    /\ repeated = <<>>

SaveAddresses ==
    /\ IF address_file = <<>> THEN TRUE ELSE Len(address_file[1]) < MaxRows
    /\ \E addresses \in AddressListsUpTo(MaxAddresses) :
          /\ address_file' = <<save_address_in_excel(addresses, address_file)>>
          /\ repeated' = IF last_addresses = <<addresses>> THEN address_file ELSE <<>>
          /\ last_addresses' = <<addresses>>
    /\ UNCHANGED <<cnpj, pureVars, http, scriptVars>>

NextAddress == SaveAddresses

SpecAddress == InitAddress /\ [][NextAddress]_vars

-----------------------------------------------------------------------------
(* What the claims speak of, written from their wording                   *)

Returned(v) == v # <<>>

\* Fourteen ASCII digits: the canonical form.
Canonical(s) == Len(s) = 14 /\ \A i \in 1..14 : s[i] \in AsciiDigits

\* The two shapes, position by position, with the digit class D given.
SeparatorAt(i) ==
    CASE i = 3 -> "." [] i = 7 -> "." [] i = 11 -> "/" [] i = 16 -> "-"
      [] OTHER -> ""

ShapeMaskedOf(s, D) ==
    /\ Len(s) = 18
    /\ \A i \in 1..18 :
          IF SeparatorAt(i) = "" THEN s[i] \in D ELSE s[i] = SeparatorAt(i)

ShapePlainOf(s, D) == Len(s) = 14 /\ \A i \in 1..14 : s[i] \in D

\* The shapes with ASCII digits, and with any decimal digit.
ShapeAscii(s) == ShapeMaskedOf(s, AsciiDigits) \/ ShapePlainOf(s, AsciiDigits)
ShapeAnyDigit(s) ==
    \/ ShapeMaskedOf(s, AsciiDigits \cup UnicodeDigits)
    \/ ShapePlainOf(s, AsciiDigits \cup UnicodeDigits)

\* The characters of s that are in D, in their order.
RECURSIVE Keep(_, _)
Keep(s, D) ==
    IF s = <<>> THEN <<>>
    ELSE (IF Head(s) \in D THEN <<Head(s)>> ELSE <<>>) \o Keep(Tail(s), D)

AllIdentical(s) == \A i \in 1..Len(s) : s[i] = s[1]

\* A check digit by the weight cycle 2, 3, ..., 9, 2, 3, ... counted from
\* the rightmost digit.
RECURSIVE CycleSum(_, _)
CycleSum(p, k) ==
    IF k >= Len(p) THEN 0
    ELSE int(p[Len(p) - k]) * (2 + (k % 8)) + CycleSum(p, k + 1)

CycleDigit(p) ==
    LET r == CycleSum(p, 0) % 11 IN
    IF r = 0 \/ r = 1 THEN "0" ELSE DigitChar[(11 - r) + 1]

\* The last two digits of c are the two check digits of its first twelve.
SuffixMatches(c) ==
    LET d1 == CycleDigit(SubSeq(c, 1, 12))
        d2 == CycleDigit(SubSeq(c, 1, 12) \o <<d1>>)
    IN  c[13] = d1 /\ c[14] = d2

\* The weight table of the claim, right-aligned: the digit k places from
\* the right end meets the table's entry k places from its right end.
ClaimTable == <<6, 5, 4, 3, 2, 9, 8, 7, 6, 5, 4, 3, 2>>

RECURSIVE TableSum(_, _)
TableSum(p, k) ==
    IF k >= Len(p) THEN 0
    ELSE int(p[Len(p) - k]) * ClaimTable[13 - k] + TableSum(p, k + 1)

TableDigit(p) ==
    LET r == TableSum(p, 0) % 11 IN
    IF r = 0 \/ r = 1 THEN <<"0">> ELSE <<DigitChar[(11 - r) + 1]>>

Example == <<"1", "1", "2", "2", "2", "3", "3", "3", "0", "0", "0", "1", "8", "1">>
ExampleMasked ==
    <<"1", "1", ".", "2", "2", "2", ".", "3", "3", "3", "/",
      "0", "0", "0", "1", "-", "8", "1">>
ExampleWrongSuffix ==
    <<"1", "1", ".", "2", "2", "2", ".", "3", "3", "3", "/",
      "0", "0", "0", "1", "-", "0", "0">>

-----------------------------------------------------------------------------
(* Claims                                                                  *)

\* C1, as stated: for every canonical (fourteen ASCII digits) c,
\* validator_cnpj(c) is true if and only if the last two digits of c are the
\* two check digits computed from its first twelve.
C1_AsStated ==
    (Returned(verdict) /\ Canonical(cnpj))
        => (verdict[1].ret = "True" <=> SuffixMatches(cnpj))

\* C1, amended: for every canonical c, validator_cnpj(c) is true if and only
\* if its fourteen digits are not all identical and its last two digits are
\* the two check digits computed from its first twelve.
C1_Amended ==
    (Returned(verdict) /\ Canonical(cnpj))
        => (verdict[1].ret = "True"
               <=> (SuffixMatches(cnpj) /\ ~AllIdentical(cnpj)))

\* A canonical CNPJ with matching check digits was accepted.
C1_Witness ==
    /\ Returned(verdict) /\ Canonical(cnpj)
    /\ SuffixMatches(cnpj) /\ verdict[1].ret = "True"

AnyDigit == AsciiDigits \cup UnicodeDigits

\* C2, as stated: validator_cnpj returns false for every string that is
\* neither DD.DDD.DDD/DDDD-DD nor fourteen consecutive digits (D an ASCII
\* digit, as the data model has it), and it does so before it extracts any
\* digit or computes any check digit: the locals of those steps are never
\* assigned.
C2_AsStated ==
    (Returned(verdict) /\ ~ShapeAscii(cnpj))
        => /\ verdict[1].ret = "False"
           /\ verdict[1].cnpj_numbers = <<>>
           /\ verdict[1].first_digit = <<>>
           /\ verdict[1].second_digit = <<>>

\* What remains of C2 when D is read as any decimal digit character.
C2_AnyDigitShape ==
    (Returned(verdict) /\ ~ShapeAnyDigit(cnpj))
        => /\ verdict[1].ret = "False"
           /\ verdict[1].cnpj_numbers = <<>>
           /\ verdict[1].first_digit = <<>>
           /\ verdict[1].second_digit = <<>>

\* C3: an input of one of the two shapes whose fourteen digit characters are
\* all the same character is rejected.
C3_Theorem ==
    (/\ Returned(verdict)
     /\ ShapeAnyDigit(cnpj)
     /\ AllIdentical(Keep(cnpj, AnyDigit)))
        => verdict[1].ret = "False"

\* Fourteen zeros under the mask, whose check digits match, were rejected by
\* the degenerate check.
C3_Witness ==
    /\ Returned(verdict)
    /\ ShapeMaskedOf(cnpj, {"0"})
    /\ verdict[1].ret = "False"
    /\ verdict[1].line = 49

\* C4: for an input of one of the two shapes, validator_cnpj of the input
\* and validator_cnpj of its digit-only form cnpj_format(input) return the
\* same boolean.
C4_Theorem ==
    (/\ Returned(verdict) /\ Returned(verdict_normalized)
     /\ ShapeAnyDigit(cnpj))
        => verdict[1].ret = verdict_normalized[1].ret

\* A masked input and its unmasked form were both accepted.
C4_Witness ==
    /\ Returned(verdict) /\ Returned(verdict_normalized)
    /\ ShapeMaskedOf(cnpj, AsciiDigits)
    /\ normalized[1] # cnpj
    /\ verdict[1].ret = "True"
    /\ verdict_normalized[1].ret = "True"

\* C5, as stated: a string rejected at the structural check normalizes to a
\* string that validator_cnpj rejects.
C5_AsStated ==
    (/\ Returned(verdict) /\ Returned(verdict_normalized)
     /\ verdict[1].line = 44)
        => verdict_normalized[1].ret = "False"

\* C5, amended: a string rejected at the structural check normalizes to a
\* string that validator_cnpj rejects, unless its digit characters, in
\* order, are fourteen, not all identical, and end in the two check digits
\* of the first twelve: then the normalized string is accepted.
C5_Amended ==
    (/\ Returned(verdict) /\ Returned(verdict_normalized)
     /\ verdict[1].line = 44)
        => (verdict_normalized[1].ret = "True"
              <=> LET d == Keep(cnpj, AnyDigit) IN
                  /\ Len(d) = 14
                  /\ ~AllIdentical(d)
                  /\ SuffixMatches(d))

\* A malformed string was rejected and its normalization accepted.
C5_Witness ==
    /\ Returned(verdict) /\ Returned(verdict_normalized)
    /\ verdict[1].line = 44
    /\ verdict[1].ret = "False"
    /\ verdict_normalized[1].ret = "True"

\* A malformed string was rejected and so was its normalization.
C5_WitnessRejected ==
    /\ Returned(verdict) /\ Returned(verdict_normalized)
    /\ verdict[1].line = 44
    /\ Len(cnpj) >= 14
    /\ verdict_normalized[1].ret = "False"

\* C6, as stated: cnpj_format(s) is the subsequence of the ASCII digits of
\* s, every other character removed, non-ASCII digit characters too; and
\* cnpj_format("11.222.333/0001-81") = "11222333000181".
C6_AsStated ==
    Returned(normalized)
        => /\ normalized[1] = Keep(cnpj, AsciiDigits)
           /\ (cnpj = ExampleMasked => normalized[1] = Example)

\* What remains of C6 for strings without non-ASCII digit characters.
C6_AsciiInputs ==
    (Returned(normalized) /\ \A i \in 1..Len(cnpj) : cnpj[i] \notin UnicodeDigits)
        => /\ normalized[1] = Keep(cnpj, AsciiDigits)
           /\ (cnpj = ExampleMasked => normalized[1] = Example)

Booleans == {"True", "False"}

\* C7: validator_cnpj returns a boolean for every string, whatever its
\* length and content, and never raises; and two calls with the same
\* argument leave the same result.
C7_Theorem ==
    /\ Returned(verdict) => verdict[1].ret \in Booleans
    /\ Returned(verdict_normalized) => verdict_normalized[1].ret \in Booleans
    /\ (/\ Returned(verdict) /\ Returned(verdict_normalized)
        /\ normalized[1] = cnpj)
          => verdict[1] = verdict_normalized[1]

\* The empty string, and a string longer than the mask, were answered.
C7_Witness ==
    /\ Returned(verdict) /\ Returned(verdict_normalized)
    /\ \/ cnpj = <<>>
       \/ Len(cnpj) > 18
    /\ verdict[1].ret = "False"

\* The check digits a returned frame holds are those of the claim's
\* right-aligned table, each a single character '0'..'9'.
FrameDigitsByTable(f) ==
    LET base == SliceTo(f.cnpj_numbers[1], 12) IN
    /\ f.first_digit # <<>> =>
          /\ Len(base) = 12
          /\ f.first_digit[1] = TableDigit(base)
          /\ Len(f.first_digit[1]) = 1
          /\ f.first_digit[1][1] \in AsciiDigits
    /\ f.second_digit # <<>> =>
          /\ Len(base \o f.first_digit[1]) = 13
          /\ f.second_digit[1] = TableDigit(base \o f.first_digit[1])
          /\ Len(f.second_digit[1]) = 1
          /\ f.second_digit[1][1] \in AsciiDigits

\* C8: calc_digit, on the 12 and the 13 digits validator_cnpj hands it,
\* right-aligns the table [6,5,4,3,2,9,8,7,6,5,4,3,2] (the rightmost digit
\* meets weight 2), sums digit*weight, and returns '0' for a remainder of 0
\* or 1 modulo 11 and 11 - remainder otherwise, one character '0'..'9'.
C8_Theorem ==
    /\ Returned(verdict) => FrameDigitsByTable(verdict[1])
    /\ Returned(verdict_normalized) => FrameDigitsByTable(verdict_normalized[1])

\* Both digits were computed, the first from a remainder of 1 and the
\* second from a remainder above 1.
C8_Witness ==
    /\ Returned(verdict)
    /\ verdict[1].second_digit # <<>>
    /\ LET base == SliceTo(verdict[1].cnpj_numbers[1], 12) IN
       /\ TableSum(base, 0) % 11 = 1
       /\ TableSum(base \o verdict[1].first_digit[1], 0) % 11 > 1

\* C9: validator_cnpj("11.222.333/0001-81") and
\* validator_cnpj("11222333000181") are true, and
\* validator_cnpj("11.222.333/0001-00") is false.
C9_Theorem ==
    Returned(verdict)
        => /\ cnpj = ExampleMasked => verdict[1].ret = "True"
           /\ cnpj = Example => verdict[1].ret = "True"
           /\ cnpj = ExampleWrongSuffix => verdict[1].ret = "False"

\* The masked example was validated.
C9_Witness == Returned(verdict) /\ cnpj = ExampleMasked

\* The unmasked example and the wrong suffix are inputs too.
C9_WitnessPlain == Returned(verdict) /\ cnpj = Example
C9_WitnessWrongSuffix == Returned(verdict) /\ cnpj = ExampleWrongSuffix

\* C10: cnpj_format(cnpj_format(s)) = cnpj_format(s).
C10_Theorem == Returned(renormalized) => renormalized[1] = normalized[1]

\* A string with two characters to remove and a digit to keep was
\* normalized twice.
C10_Witness ==
    /\ Returned(renormalized)
    /\ Len(normalized[1]) >= 1
    /\ Len(cnpj) >= Len(normalized[1]) + 2

\* C14: get_cnpj_with_httpclient never raises and leaves no connection
\* open.  For an argument validator_cnpj rejects it returns None with no
\* connection created and no request made.  For an argument validator_cnpj
\* accepts it calls request once, for the digits of the argument, and
\* returns the decoded payload for a 200 with a decodable body and None for
\* 429, 504, any other status, an undecodable body and an exception.
C14_Theorem ==
    Returned(http) =>
        LET call == http[1] IN
        /\ ~call.raised
        /\ call.connection # "open"
        /\ validator_cnpj(cnpj) = "False" =>
              /\ call.ret = <<>>
              /\ call.connection = "none"
              /\ call.requests = <<>>
        /\ validator_cnpj(cnpj) = "True" =>
              /\ call.connection = "closed"
              /\ call.requests = <<Keep(cnpj, AnyDigit)>>
              /\ IF /\ call.response # <<>>
                    /\ call.response[1].status = 200
                    /\ call.response[1].body # <<>>
                 THEN call.ret = call.response[1].body
                 ELSE call.ret = <<>>

\* A masked CNPJ was accepted, requested once by its digits, answered 200,
\* and its payload returned.
C14_Witness ==
    /\ Returned(http)
    /\ cnpj = ExampleMasked
    /\ http[1].requests = <<Example>>
    /\ http[1].ret # <<>>
    /\ Truthy(http[1].ret[1])
    /\ http[1].connection = "closed"

\* Calls that ended on each of the other paths.
C14_WitnessRejected ==
    Returned(http) /\ cnpj = ExampleWrongSuffix /\ http[1].line = 142
C14_Witness429 ==
    Returned(http) /\ http[1].line = 153 /\ http[1].connection = "closed"
C14_Witness504 ==
    Returned(http) /\ http[1].line = 157 /\ http[1].connection = "closed"
C14_WitnessOtherStatus ==
    Returned(http) /\ http[1].line = 164 /\ http[1].connection = "closed"
C14_WitnessBadJson ==
    Returned(http) /\ http[1].line = 168 /\ http[1].connection = "closed"
C14_WitnessException ==
    Returned(http) /\ http[1].line = 172 /\ http[1].connection = "closed"

\* The rows of sheet 'Dados' of the file, none when there is no such sheet.
DadosRows ==
    IF file # <<>> /\ file[1].Dados # <<>> THEN file[1].Dados[1] ELSE <<>>

\* C11, as stated: after any sequence of save_data_in_sheet calls on the
\* file, sheet 'Dados' has at most one row per CNPJ.
C11_AsStated ==
    \A k, l \in 1..Len(DadosRows) :
        k # l => Keep(DadosRows[k], AsciiDigits) # Keep(DadosRows[l], AsciiDigits)

\* read_cnpj_in_sheet has just returned.
JustRead ==
    \/ pc = "loop" /\ loop_i = 1
    \/ pc = "end" /\ cnpj_pendente = <<>>

\* The CNPJs, digits only, that have a row in 'Dados'.
SavedCnpjs == {Keep(DadosRows[k], AsciiDigits) : k \in 1..Len(DadosRows)}

\* The cells of the input column that are not empty.
InputCells ==
    IF file = <<>> THEN <<>> ELSE SelectSeq(file[1].CNPJS, LAMBDA c : c # NaN)

\* The input CNPJs without a saved row, digits only, in input order.
RECURSIVE Unsaved(_)
Unsaved(cells) ==
    IF cells = <<>> THEN <<>>
    ELSE (IF Keep(Head(cells), AsciiDigits) \in SavedCnpjs
          THEN <<>> ELSE <<Keep(Head(cells), AsciiDigits)>>)
         \o Unsaved(Tail(cells))

\* C12, as stated: read_cnpj_in_sheet puts no CNPJ with a saved row in the
\* pending list, whichever form the input cell and the saved payload have,
\* and returns every other input CNPJ, digits only, in input order.
C12_AsStated ==
    JustRead =>
        /\ \A k \in 1..Len(cnpj_pendente) : cnpj_pendente[k] \notin SavedCnpjs
        /\ cnpj_pendente = Unsaved(InputCells)

\* What remains of C12 while no payload was saved masked: every row of
\* 'Dados' is digits only.
C12_DigitRows ==
    (JustRead /\ \A k \in 1..Len(DadosRows) : Canonical(DadosRows[k]))
        => /\ \A k \in 1..Len(cnpj_pendente) : cnpj_pendente[k] \notin SavedCnpjs
           /\ cnpj_pendente = Unsaved(InputCells)

\* C13, as stated: between any two requests of a run there is a wait, and
\* no wait follows the last CNPJ.
C13_AsStated ==
    /\ \A k, l \in 1..Len(log) :
          (k < l /\ log[k] = "request" /\ log[l] = "request")
              => \E m \in (k + 1)..(l - 1) : log[m] = "wait"
    /\ (pc = "end" /\ log # <<>>) => log[Len(log)] # "wait"

\* What remains of C13: no wait follows the last CNPJ, a wait follows every
\* other CNPJ whose result was saved, and none follows any other call.
C13_WaitAfterSave ==
    /\ (pc = "end" /\ log # <<>>) => log[Len(log)] # "wait"
    /\ log # <<>> => log[1] # "wait"
    /\ \A k \in 1..(Len(log) - 1) : ~(log[k] = "wait" /\ log[k + 1] = "wait")
    /\ pc = "sleep" => (result # <<>> /\ Truthy(result[1]) /\ loop_i < Len(cnpj_pendente))

\* The rows of Address.xlsx with a value, the header apart.
DataRows == SelectSeq(address_file[1], LAMBDA v : v # "None" /\ v # "CEP")

HeaderRows == SelectSeq(address_file[1], LAMBDA v : v = "CEP")

\* C15, as stated: after any sequence of save_address_in_excel calls on a
\* file that was missing or free of duplicates, the sheet has exactly one
\* header row and no two data rows with the same CEP, and a call that
\* repeats the list of the call before it leaves the sheet as it was.
C15_AsStated ==
    last_addresses # <<>> =>
        /\ Len(HeaderRows) = 1
        /\ \A k, l \in 1..Len(DataRows) : k # l => DataRows[k] # DataRows[l]
        /\ repeated # <<>> => repeated[1] = address_file[1]

\* What remains of C15 while no address without a 'cep' key was saved.
C15_EveryAddressWithCep ==
    (last_addresses # <<>> /\ \A k \in 1..Len(DataRows) : DataRows[k] # "N/A")
        => /\ Len(HeaderRows) = 1
           /\ \A k, l \in 1..Len(DataRows) : k # l => DataRows[k] # DataRows[l]
           /\ repeated # <<>> => repeated[1] = address_file[1]

\* In a file the function created, the header is in row 2 under an empty
\* row 1.
C15_HeaderInRowTwo ==
    /\ last_addresses # <<>>
    /\ Len(address_file[1]) >= 2
    /\ address_file[1][1] = "None"
    /\ address_file[1][2] = "CEP"

====
